---- MODULE Spec2Model ----
(***************************************************************************)
(* State-machine model of the pipeline orchestration engine of            *)
(* plaicube-py: PipelineManager (src/pipeline_manager.py) running on a    *)
(* single asyncio event loop.                                             *)
(*                                                                        *)
(* Every action is one run-to-suspension segment of the event loop: a     *)
(* synchronous manager call, or the part of an execution task between two *)
(* points where the task really yields (the awaited executor call).       *)
(* Timestamps are modelled by whether they are set (TRUE) or None (FALSE).*)
(* Optional strings / dicts are modelled as sequences, <<>> being None.   *)
(***************************************************************************)
EXTENDS Integers, Sequences, FiniteSets, TLC

\* ---------------------------------------------------------------- bounds
MaxObjects == 4       \* Pipeline objects plus tasks that any specification explores
MaxSpawned == 3       \* Pipeline objects created plus tasks spawned by direct calls of the manager
MaxCustom == 1        \* longest config.customSteps explored
MaxFairSpawned == 2   \* Pipeline objects plus tasks explored under fair scheduling
MaxCreateCustom == 2  \* longest config.customSteps explored when only create_pipeline is exercised
MaxApiSpawned == 2    \* Pipeline objects plus tasks explored when requests come through the HTTP API
MaxStepSpawned == 2   \* Pipeline objects plus tasks explored when step lists of every shape are run

\* ---------------------------------------------------------------- enums
PENDING == "pending"
PROCESSING == "processing"
COMPLETED == "completed"
FAILED == "failed"
CANCELLED == "cancelled"
SKIPPED == "skipped"

PipelineStatus == {PENDING, PROCESSING, COMPLETED, FAILED, CANCELLED}
StepStatus == {PENDING, PROCESSING, COMPLETED, FAILED, SKIPPED}

RUNWAY_VIDEO == "runway_video"
FFMPEG_PROCESS == "ffmpeg_process"
WHISPER_TRANSCRIBE == "whisper_transcribe"
GPT4_ANALYSIS == "gpt4_analysis"
CUSTOM_PROCESS == "custom_process"

StepType == {RUNWAY_VIDEO, FFMPEG_PROCESS, WHISPER_TRANSCRIBE, GPT4_ANALYSIS, CUSTOM_PROCESS}

TerminalPipelineStatus == {COMPLETED, FAILED, CANCELLED}
TerminalStepStatus == {COMPLETED, FAILED, SKIPPED}

\* ---------------------------------------------------------------- inputs
PipelineIds == 1..MaxObjects            \* the uuid4 values, in order of generation
UnknownId == 0                          \* an id that create_pipeline never hands out
TaskIds == 1..MaxObjects                \* the tasks, in order of creation
None == <<>>
EmptyInput == <<"{}">>
CustomPayloads == {<<"type", "resize">>}
ExecutorErrors == {"quota exceeded"}
ExecutorOutputs == {"https://x/out.mp4"}

\* video ids as request.videoId carries them; the manager stores the video id
\* and never reads it, so calls made on the manager directly all pass the first
VideoIds == {"0b8f1c7e-5a3d-4e2b-9c61-7d2a4f6e8b10", "c4d2e6a8-1f3b-4a5c-8e7d-9b0a1c2d3e4f"}
DirectVideoId == "0b8f1c7e-5a3d-4e2b-9c61-7d2a4f6e8b10"

RECURSIVE SeqsUpTo(_, _)
SeqsUpTo(S, n) ==
    IF n = 0 THEN {<<>>}
    ELSE LET shorter == SeqsUpTo(S, n - 1)
         IN shorter \cup {Append(s, x) : s \in {q \in shorter : Len(q) = n - 1}, x \in S}

PipelineConfig ==
    [enableRunwayVideo : BOOLEAN, enableFfmpeg : BOOLEAN, enableWhisper : BOOLEAN,
     enableGpt4 : BOOLEAN, customSteps : SeqsUpTo(CustomPayloads, MaxCustom)]

\* what runway_service.process_video can hand back to _execute_runway_step
RunwayResults ==
    {[status |-> "success", video_url |-> u, error |-> ""] : u \in ExecutorOutputs}
    \cup {[status |-> "failed", video_url |-> "", error |-> e] : e \in ExecutorErrors}
    \cup {[status |-> "none", video_url |-> "", error |-> ""]}

VARIABLES
    objects,            \* Pipeline objects ever constructed, indexed by pipelineId; an object
                        \* that neither the store nor a suspended task references is Garbage
    pipelines,          \* keys of self.pipelines (key k maps to objects[k])
    running_pipelines,  \* self.running_pipelines: pipelineId -> task
    tasks,              \* asyncio tasks created by start_pipeline; a task that has ended is Done
    last,               \* the call or task segment that produced this state
    cancel_snapshot,    \* history: steps still Pending when a Processing pipeline was cancelled
    history,            \* history: what the callers have done to each stored pipeline so far
    background          \* pipeline ids whose start_pipeline call transform_video has handed to
                        \* BackgroundTasks and that has not run yet

vars == <<objects, pipelines, running_pipelines, tasks, last, cancel_snapshot, history, background>>

\* ---------------------------------------------------------------- helpers
PipelineStep(stepType, order, input) ==
    [stepType |-> stepType, status |-> PENDING, order |-> order, input |-> input,
     output |-> None, error |-> None, startedAt |-> FALSE, completedAt |-> FALSE,
     progress |-> 0]

DictDel(d, k) == [x \in (DOMAIN d) \ {k} |-> d[x]]
DictSet(d, k, v) == [x \in (DOMAIN d) \cup {k} |-> IF x = k THEN v ELSE d[x]]

Call(op, id, ret) == [op |-> op, id |-> id, ret |-> ret]

\* ---------------------------------------------------------------- object lifetime
\* A Pipeline object lives as long as self.pipelines holds it or a task that
\* has passed `pipeline = self.pipelines[pipeline_id]` is still suspended.
Garbage == [pipelineId |-> 0, videoId |-> "", status |-> "garbage", steps |-> <<>>,
            updatedAt |-> FALSE, completedAt |-> FALSE, totalSteps |-> 0, completedSteps |-> 0]

\* a task that has ended, whether it returned, raised or was cancelled
Done == [pipeline_id |-> 0, pc |-> "done", step |-> 0, must_cancel |-> FALSE]

Referenced(ts, store, id) ==
    \/ id \in store
    \/ \E t \in DOMAIN ts : ts[t].pc = "awaiting" /\ ts[t].pipeline_id = id

Collect(objs, store, ts) ==
    [id \in DOMAIN objs |-> IF Referenced(ts, store, id) THEN objs[id] ELSE Garbage]

\* ---------------------------------------------------------------- create
\* the custom-steps loop with `input={}` copied from the blocks above it
RECURSIVE CustomSteps_EmptyInput(_, _)
CustomSteps_EmptyInput(steps, customSteps) ==
    IF customSteps = <<>> THEN steps
    ELSE CustomSteps_EmptyInput(Append(steps, PipelineStep(CUSTOM_PROCESS, Len(steps), EmptyInput)),
                                Tail(customSteps))

RECURSIVE CustomSteps(_, _)
CustomSteps(steps, customSteps) ==
    IF customSteps = <<>> THEN steps
    ELSE CustomSteps(Append(steps, PipelineStep(CUSTOM_PROCESS, Len(steps), Head(customSteps))),
                     Tail(customSteps))

\* _create_steps with `order += 1` left out
_create_steps_OrderNotAdvanced(config) ==
    LET s1 == IF config.enableRunwayVideo
              THEN <<PipelineStep(RUNWAY_VIDEO, 0, EmptyInput)>> ELSE <<>>
        s2 == IF config.enableFfmpeg
              THEN Append(s1, PipelineStep(FFMPEG_PROCESS, 0, EmptyInput)) ELSE s1
        s3 == IF config.enableWhisper
              THEN Append(s2, PipelineStep(WHISPER_TRANSCRIBE, 0, EmptyInput)) ELSE s2
        s4 == IF config.enableGpt4
              THEN Append(s3, PipelineStep(GPT4_ANALYSIS, 0, EmptyInput)) ELSE s3
        all == CustomSteps(s4, config.customSteps)
    IN [i \in DOMAIN all |-> [all[i] EXCEPT !.order = 0]]

_create_steps(config) ==
    LET s1 == IF config.enableRunwayVideo
              THEN <<PipelineStep(RUNWAY_VIDEO, 0, EmptyInput)>> ELSE <<>>
        s2 == IF config.enableFfmpeg
              THEN Append(s1, PipelineStep(FFMPEG_PROCESS, Len(s1), EmptyInput)) ELSE s1
        s3 == IF config.enableWhisper
              THEN Append(s2, PipelineStep(WHISPER_TRANSCRIBE, Len(s2), EmptyInput)) ELSE s2
        s4 == IF config.enableGpt4
              THEN Append(s3, PipelineStep(GPT4_ANALYSIS, Len(s3), EmptyInput)) ELSE s3
    IN CustomSteps(s4, config.customSteps)

ForcedConfig(config) ==
    [config EXCEPT !.enableFfmpeg = FALSE, !.enableWhisper = FALSE, !.enableGpt4 = FALSE]

Pipeline(pipeline_id, video_id, steps) ==
    [pipelineId |-> pipeline_id, videoId |-> video_id, status |-> PENDING, steps |-> steps,
     updatedAt |-> FALSE, completedAt |-> FALSE,
     totalSteps |-> Len(steps), completedSteps |-> 0]

\* create_pipeline that also hands the new pipeline to an execution task
CreatePipeline_StartsExecution(video_id, config) ==
    /\ Len(objects) + Len(tasks) < MaxSpawned
    /\ LET pipeline_id == Len(objects) + 1
           steps == _create_steps(ForcedConfig(config))
       IN /\ objects' = Append(objects, [Pipeline(pipeline_id, video_id, steps)
                                             EXCEPT !.status = PROCESSING])
          /\ pipelines' = pipelines \cup {pipeline_id}
          /\ tasks' = Append(tasks, [pipeline_id |-> pipeline_id, pc |-> "created",
                                     step |-> 0, must_cancel |-> FALSE])
          /\ running_pipelines' = DictSet(running_pipelines, pipeline_id, Len(tasks) + 1)
          /\ last' = Call("create", pipeline_id, "Pipeline")
          /\ history' = DictSet(history, pipeline_id, "created")
    /\ UNCHANGED <<cancel_snapshot, background>>

\* the body of create_pipeline; the new pipeline's id is Len(objects) + 1
create_pipeline(video_id, config) ==
    /\ Len(objects) + Len(tasks) < MaxObjects
    /\ LET pipeline_id == Len(objects) + 1
           steps == _create_steps(ForcedConfig(config))
       IN /\ objects' = Append(objects, Pipeline(pipeline_id, video_id, steps))
          /\ pipelines' = pipelines \cup {pipeline_id}
          /\ history' = DictSet(history, pipeline_id, "created")
    /\ UNCHANGED <<running_pipelines, tasks, cancel_snapshot>>

\* a caller calls create_pipeline
CreatePipeline(video_id, config) ==
    /\ Len(objects) + Len(tasks) < MaxSpawned
    /\ create_pipeline(video_id, config)
    /\ last' = Call("create", Len(objects) + 1, "Pipeline")
    /\ UNCHANGED background

\* ---------------------------------------------------------------- callers
\* A caller passes an id that create_pipeline has returned (the pipeline may
\* have been deleted since) or a string that is no pipeline's id; a uuid4 that
\* create_pipeline generates later never equals an id a caller used before.
\* Ids of deleted pipelines are tried in every state, the unknown id while the
\* store is empty.
CallerIds == PipelineIds \cup {UnknownId}
Held(pipeline_id) ==
    \/ pipeline_id \in DOMAIN objects
    \/ pipeline_id = UnknownId /\ pipelines = {}

\* What has happened to a stored pipeline, as far as the claims tell cases apart:
\*   "created"         never started, never cancelled
\*   "started_once"    started exactly once, never cancelled, and every executor
\*                     call made for it so far has returned success
\*   "cancelled_early" as "started_once", then cancelled before the executor
\*                     call of its first step had returned
\*   "other"           anything else
Early(pipeline) ==
    /\ pipeline.status = PROCESSING
    /\ \A i \in DOMAIN pipeline.steps :
          \/ pipeline.steps[i].status = PENDING
          \/ i = 1 /\ pipeline.steps[i].status = PROCESSING

Started(h) ==
    CASE h = "created" -> "started_once"
      [] h = "cancelled_early" -> h
      [] OTHER -> "other"

Cancelled(h, pipeline) ==
    CASE h = "started_once" /\ Early(pipeline) -> "cancelled_early"
      [] h = "cancelled_early" -> h
      [] OTHER -> "other"

Returned(h, id, step, result) ==
    IF id \in DOMAIN h /\ h[id] = "started_once"
       /\ step.stepType = RUNWAY_VIDEO /\ result.status # "success"
    THEN [h EXCEPT ![id] = "other"]
    ELSE h

\* ---------------------------------------------------------------- start
Task(pipeline_id) ==
    [pipeline_id |-> pipeline_id, pc |-> "created", step |-> 0, must_cancel |-> FALSE]

\* start_pipeline with the task spawned and registered ahead of the lookup
StartPipeline_SpawnBeforeLookup(pipeline_id) ==
    /\ Held(pipeline_id)
    /\ Len(objects) + Len(tasks) < MaxSpawned
    /\ tasks' = Append(tasks, Task(pipeline_id))
    /\ running_pipelines' = DictSet(running_pipelines, pipeline_id, Len(tasks) + 1)
    /\ IF pipeline_id \notin pipelines
       THEN /\ last' = Call("start", pipeline_id, "PipelineException: not found")
            /\ UNCHANGED <<objects, history>>
       ELSE /\ objects' = [objects EXCEPT ![pipeline_id].status = PROCESSING,
                                          ![pipeline_id].updatedAt = TRUE]
            /\ last' = Call("start", pipeline_id, "None")
            /\ history' = [history EXCEPT ![pipeline_id] = Started(@)]
    /\ UNCHANGED <<pipelines, cancel_snapshot, background>>

\* start_pipeline that starts the count of completed steps over
start_pipeline_ResetsCompletedSteps(pipeline_id) ==
    IF pipeline_id \notin pipelines
    THEN /\ last' = Call("start", pipeline_id, "PipelineException: not found")
         /\ UNCHANGED <<objects, pipelines, running_pipelines, tasks, cancel_snapshot,
                        history>>
    ELSE /\ Len(objects) + Len(tasks) < MaxObjects
         /\ objects' = [objects EXCEPT ![pipeline_id].status = PROCESSING,
                                       ![pipeline_id].updatedAt = TRUE,
                                       ![pipeline_id].completedSteps = 0]
         /\ tasks' = Append(tasks, Task(pipeline_id))
         /\ running_pipelines' = DictSet(running_pipelines, pipeline_id, Len(tasks) + 1)
         /\ last' = Call("start", pipeline_id, "None")
         /\ history' = [history EXCEPT ![pipeline_id] = Started(@)]
         /\ UNCHANGED <<pipelines, cancel_snapshot>>

\* start_pipeline that creates the task and does not register it
start_pipeline_TaskNotRegistered(pipeline_id) ==
    IF pipeline_id \notin pipelines
    THEN /\ last' = Call("start", pipeline_id, "PipelineException: not found")
         /\ UNCHANGED <<objects, pipelines, running_pipelines, tasks, cancel_snapshot,
                        history>>
    ELSE /\ Len(objects) + Len(tasks) < MaxObjects
         /\ objects' = [objects EXCEPT ![pipeline_id].status = PROCESSING,
                                       ![pipeline_id].updatedAt = TRUE]
         /\ tasks' = Append(tasks, Task(pipeline_id))
         /\ last' = Call("start", pipeline_id, "None")
         /\ history' = [history EXCEPT ![pipeline_id] = Started(@)]
         /\ UNCHANGED <<pipelines, running_pipelines, cancel_snapshot>>

\* the body of start_pipeline
start_pipeline(pipeline_id) ==
    IF pipeline_id \notin pipelines
    THEN /\ last' = Call("start", pipeline_id, "PipelineException: not found")
         /\ UNCHANGED <<objects, pipelines, running_pipelines, tasks, cancel_snapshot,
                        history>>
    ELSE /\ Len(objects) + Len(tasks) < MaxObjects
         /\ objects' = [objects EXCEPT ![pipeline_id].status = PROCESSING,
                                       ![pipeline_id].updatedAt = TRUE]
         /\ tasks' = Append(tasks, Task(pipeline_id))
         /\ running_pipelines' = DictSet(running_pipelines, pipeline_id, Len(tasks) + 1)
         /\ last' = Call("start", pipeline_id, "None")
         /\ history' = [history EXCEPT ![pipeline_id] = Started(@)]
         /\ UNCHANGED <<pipelines, cancel_snapshot>>

\* a caller calls start_pipeline
StartPipeline(pipeline_id) ==
    /\ Held(pipeline_id)
    /\ pipeline_id \in pipelines => Len(objects) + Len(tasks) < MaxSpawned
    /\ start_pipeline(pipeline_id)
    /\ UNCHANGED background

\* ---------------------------------------------------------------- get
get_pipeline(pipeline_id) ==
    IF pipeline_id \in pipelines THEN objects[pipeline_id] ELSE None

\* ---------------------------------------------------------------- cancel / delete
\* asyncio.Task.cancel(): a task that has ended is left alone, any other task
\* gets CancelledError thrown in when it next runs
TaskCancel(ts, t) ==
    IF ts[t].pc \in {"created", "awaiting"}
    THEN [ts EXCEPT ![t].must_cancel = TRUE]
    ELSE ts

PendingSteps(p) == {i \in 1..Len(p.steps) : p.steps[i].status = PENDING}

\* cancel_pipeline that cancels the running task and keeps its registry entry
CancelPipeline_KeepsHandle(pipeline_id) ==
    /\ Held(pipeline_id)
    /\ IF pipeline_id \notin pipelines
       THEN /\ last' = Call("cancel", pipeline_id, "False")
            /\ UNCHANGED <<objects, pipelines, running_pipelines, tasks, cancel_snapshot,
                           history>>
       ELSE /\ objects' = [objects EXCEPT ![pipeline_id].status = CANCELLED,
                                          ![pipeline_id].updatedAt = TRUE]
            /\ IF pipeline_id \in DOMAIN running_pipelines
               THEN tasks' = TaskCancel(tasks, running_pipelines[pipeline_id])
               ELSE UNCHANGED tasks
            /\ cancel_snapshot' =
                   IF objects[pipeline_id].status = PROCESSING
                   THEN DictSet(cancel_snapshot, pipeline_id, PendingSteps(objects[pipeline_id]))
                   ELSE cancel_snapshot
            /\ last' = Call("cancel", pipeline_id, "True")
            /\ history' = [history EXCEPT ![pipeline_id] = Cancelled(@, objects[pipeline_id])]
            /\ UNCHANGED <<pipelines, running_pipelines>>
    /\ UNCHANGED background

CancelPipeline(pipeline_id) ==
    /\ Held(pipeline_id)
    /\ IF pipeline_id \notin pipelines
       THEN /\ last' = Call("cancel", pipeline_id, "False")
            /\ UNCHANGED <<objects, pipelines, running_pipelines, tasks, cancel_snapshot,
                           history>>
       ELSE /\ objects' = [objects EXCEPT ![pipeline_id].status = CANCELLED,
                                          ![pipeline_id].updatedAt = TRUE]
            /\ IF pipeline_id \in DOMAIN running_pipelines
               THEN /\ tasks' = TaskCancel(tasks, running_pipelines[pipeline_id])
                    /\ running_pipelines' = DictDel(running_pipelines, pipeline_id)
               ELSE UNCHANGED <<tasks, running_pipelines>>
            /\ cancel_snapshot' =
                   IF objects[pipeline_id].status = PROCESSING
                   THEN DictSet(cancel_snapshot, pipeline_id, PendingSteps(objects[pipeline_id]))
                   ELSE cancel_snapshot
            /\ last' = Call("cancel", pipeline_id, "True")
            /\ history' = [history EXCEPT ![pipeline_id] = Cancelled(@, objects[pipeline_id])]
            /\ UNCHANGED pipelines
    /\ UNCHANGED background

\* delete_pipeline without the membership test: pops with a default and
\* reports success whatever it found
DeletePipeline_PopsWithDefault(pipeline_id) ==
    /\ Held(pipeline_id)
    /\ IF pipeline_id \in DOMAIN running_pipelines
       THEN /\ tasks' = TaskCancel(tasks, running_pipelines[pipeline_id])
            /\ running_pipelines' = DictDel(running_pipelines, pipeline_id)
       ELSE UNCHANGED <<tasks, running_pipelines>>
    /\ pipelines' = pipelines \ {pipeline_id}
    /\ objects' = Collect(objects, pipelines', tasks')
    /\ cancel_snapshot' = DictDel(cancel_snapshot, pipeline_id)
    /\ last' = Call("delete", pipeline_id, "True")
    /\ history' = DictDel(history, pipeline_id)
    /\ UNCHANGED background

DeletePipeline(pipeline_id) ==
    /\ Held(pipeline_id)
    /\ IF pipeline_id \notin pipelines
       THEN /\ last' = Call("delete", pipeline_id, "False")
            /\ UNCHANGED <<objects, pipelines, running_pipelines, tasks, cancel_snapshot,
                           history>>
       ELSE /\ IF pipeline_id \in DOMAIN running_pipelines
               THEN /\ tasks' = TaskCancel(tasks, running_pipelines[pipeline_id])
                    /\ running_pipelines' = DictDel(running_pipelines, pipeline_id)
               ELSE UNCHANGED <<tasks, running_pipelines>>
            /\ pipelines' = pipelines \ {pipeline_id}
            /\ objects' = Collect(objects, pipelines', tasks')
            /\ cancel_snapshot' = DictDel(cancel_snapshot, pipeline_id)
            /\ last' = Call("delete", pipeline_id, "True")
            /\ history' = DictDel(history, pipeline_id)
    /\ UNCHANGED background

\* ---------------------------------------------------------------- POST /api/video/transform
\* The request body as FastAPI receives it. A URL is <<scheme, rest>>, a prompt
\* a sequence of characters, pipelineConfig a dict (<<>> for None and for {},
\* which the handler does not tell apart). Values of config keys are well typed.
PromptLimit == 1000
MalformedVideoIds == {"not-a-uuid"}
HttpsUrl == <<"https", "cdn.example/in.mp4">>
FtpUrl == <<"ftp", "cdn.example/in.mp4">>
ShortPrompt == <<"z", "o", "o", "m">>
LongestPrompt == [i \in 1..PromptLimit |-> "a"]
RejectedPrompts == {<<>>, <<" ", " ">>, [i \in 1..(PromptLimit + 1) |-> "a"]}
RequestConfigs ==
    {<<>>, [enableFfmpeg |-> TRUE], [customSteps |-> <<<<"type", "resize">>>>]}
UnknownKeyConfig == [enableRunwayVideo |-> TRUE, quality |-> "high"]

\* the well-formed requests, and requests with one field or every field malformed
WellFormedRequests ==
    [videoId : VideoIds, videoUrl : {HttpsUrl}, prompt : {ShortPrompt, LongestPrompt},
     pipelineConfig : RequestConfigs]
MalformedRequests ==
    LET base == [videoId |-> DirectVideoId, videoUrl |-> HttpsUrl, prompt |-> ShortPrompt,
                 pipelineConfig |-> <<>>]
    IN {[base EXCEPT !.videoId = v] : v \in MalformedVideoIds}
       \cup {[base EXCEPT !.videoUrl = FtpUrl]}
       \cup {[base EXCEPT !.prompt = p] : p \in RejectedPrompts}
       \cup {[base EXCEPT !.pipelineConfig = UnknownKeyConfig]}
       \cup {[videoId |-> v, videoUrl |-> FtpUrl, prompt |-> <<>>,
               pipelineConfig |-> UnknownKeyConfig] : v \in MalformedVideoIds}
Requests == WellFormedRequests \cup MalformedRequests

\* pydantic's HttpUrl, the type of VideoRequest.videoUrl
HttpUrl(url) == url # <<>> /\ url[1] \in {"http", "https"}

\* the strings among the modelled ones that uuid.UUID() parses
UuidStrings == VideoIds

\* The validators: "True" when they return, else the message of the
\* ValidationException they raise.
validate_uuid(uuid_string, field_name) ==
    IF uuid_string \in UuidStrings THEN "True"
    ELSE "Invalid " \o field_name \o " format"

validate_video_url(url) ==
    IF url = <<>> THEN "Video URL cannot be empty"
    ELSE IF url[1] \notin {"http", "https"} THEN "Video URL must be a valid HTTP/HTTPS URL"
    ELSE "True"

\* validate_prompt without the check of the length
validate_prompt_NoLengthCheck(prompt) ==
    IF prompt = <<>> \/ \A i \in DOMAIN prompt : prompt[i] = " " THEN "Prompt cannot be empty"
    ELSE "True"

validate_prompt(prompt) ==
    IF prompt = <<>> \/ \A i \in DOMAIN prompt : prompt[i] = " " THEN "Prompt cannot be empty"
    ELSE IF Len(prompt) > PromptLimit THEN "Prompt too long (max 1000 characters)"
    ELSE "True"

allowed_keys == {"enableRunwayVideo", "enableFfmpeg", "enableWhisper", "enableGpt4", "customSteps"}

validate_pipeline_config(config) ==
    IF DOMAIN config \subseteq allowed_keys THEN "True"
    ELSE "Invalid pipeline config key"

\* lines 61-66 of transform_video: the first validator that raises decides
ValidateInput(request) ==
    LET checks == <<validate_uuid(request.videoId, "videoId"),
                    validate_video_url(request.videoUrl),
                    validate_prompt(request.prompt),
                    IF request.pipelineConfig # <<>>
                    THEN validate_pipeline_config(request.pipelineConfig) ELSE "True">>
        raising == {i \in DOMAIN checks : checks[i] # "True"}
    IN IF raising = {} THEN "True"
       ELSE checks[CHOOSE i \in raising : \A j \in raising : i <= j]

\* PipelineConfig(**request.pipelineConfig), None standing for PipelineConfig()
ParseConfig(d) ==
    [enableRunwayVideo |-> IF "enableRunwayVideo" \in DOMAIN d THEN d.enableRunwayVideo ELSE TRUE,
     enableFfmpeg |-> IF "enableFfmpeg" \in DOMAIN d THEN d.enableFfmpeg ELSE FALSE,
     enableWhisper |-> IF "enableWhisper" \in DOMAIN d THEN d.enableWhisper ELSE FALSE,
     enableGpt4 |-> IF "enableGpt4" \in DOMAIN d THEN d.enableGpt4 ELSE FALSE,
     customSteps |-> IF "customSteps" \in DOMAIN d THEN d.customSteps ELSE <<>>]

\* the duplicate check looking only at pipelines that are being executed
ExistingPipelines_OnlyProcessing(video_id) ==
    {id \in pipelines : objects[id].videoId = video_id /\ objects[id].status = PROCESSING}

\* the stored pipelines whose videoId equals video_id, in the order of the dict
ExistingPipelines(video_id) == {id \in pipelines : objects[id].videoId = video_id}

\* a transform request and the handler's answer, as `last` records them
Response(request, id, ret) == [op |-> "transform", id |-> id, ret |-> ret, request |-> request]

\* The handler runs from its entry to its return without an await, so it is one
\* segment of the event loop; the start handed to BackgroundTasks runs later.
TransformVideo(request) ==
    IF ~HttpUrl(request.videoUrl)
    THEN /\ last' = Response(request, 0, "422: request validation")
         /\ UNCHANGED <<objects, pipelines, running_pipelines, tasks, cancel_snapshot,
                        history, background>>
    ELSE IF ValidateInput(request) # "True"
    THEN /\ last' = Response(request, 0, "400: " \o ValidateInput(request))
         /\ UNCHANGED <<objects, pipelines, running_pipelines, tasks, cancel_snapshot,
                        history, background>>
    ELSE IF ExistingPipelines(request.videoId) # {}
    THEN /\ last' = Response(request,
                             CHOOSE id \in ExistingPipelines(request.videoId) :
                                 \A other \in ExistingPipelines(request.videoId) : id <= other,
                             "Pipeline already exists")
         /\ UNCHANGED <<objects, pipelines, running_pipelines, tasks, cancel_snapshot,
                        history, background>>
    ELSE /\ Len(objects) + Len(tasks) < MaxApiSpawned
         /\ create_pipeline(request.videoId, ParseConfig(request.pipelineConfig))
         /\ background' = background \cup {Len(objects) + 1}
         /\ last' = Response(request, Len(objects) + 1, "Pipeline created and started")

\* Starlette runs the background task after the response has been sent; an
\* exception of start_pipeline ends the background task and reaches no caller
BackgroundStart(pipeline_id) ==
    /\ pipeline_id \in background
    /\ pipeline_id \in pipelines => Len(objects) + Len(tasks) < MaxApiSpawned
    /\ start_pipeline(pipeline_id)
    /\ background' = background \ {pipeline_id}

\* ---------------------------------------------------------------- execution task
\* step types whose executor really yields to the event loop (network I/O in
\* runway_service.process_video, asyncio.sleep in _execute_custom_step)
Suspends(stepType) == stepType \in {RUNWAY_VIDEO, CUSTOM_PROCESS}

DisabledMessage(stepType) ==
    CASE stepType = FFMPEG_PROCESS -> <<"FFmpeg service is currently disabled">>
      [] stepType = WHISPER_TRANSCRIBE -> <<"Whisper service is currently disabled">>
      [] stepType = GPT4_ANALYSIS -> <<"GPT4 service is currently disabled">>
      [] OTHER -> None

\* _execute_step up to the dispatch
BeginStep(step) ==
    [step EXCEPT !.status = PROCESSING, !.startedAt = TRUE, !.progress = 10]

\* the finally block of _execute_step
FinallyStep(step) ==
    IF step.status = PROCESSING
    THEN [step EXCEPT !.completedAt = TRUE, !.status = COMPLETED, !.progress = 100]
    ELSE [step EXCEPT !.completedAt = TRUE]

\* the except block of _execute_step without `step.progress = 0`
ExceptStep_KeepsProgress(step, e) ==
    [step EXCEPT !.status = FAILED, !.error = e]

\* the except block of _execute_step, e being str(exception)
ExceptStep(step, e) ==
    [step EXCEPT !.status = FAILED, !.error = e, !.progress = 0]

\* placeholder executors that record the message and leave the status alone
PlaceholderStep_StatusNotSet(step) ==
    FinallyStep([step EXCEPT !.error = DisabledMessage(step.stepType)])

\* the three *_placeholder executors followed by the finally block
PlaceholderStep(step) ==
    FinallyStep([step EXCEPT !.status = SKIPPED, !.error = DisabledMessage(step.stepType)])

\* _execute_step with the executor's result never stored in step.output
ReturnStep_DropsOutput(step, result) ==
    IF step.stepType = RUNWAY_VIDEO /\ result.status # "success"
    THEN LET error == IF result.status = "failed" THEN result.error ELSE "No result"
         IN [step |-> FinallyStep(ExceptStep(step, <<"Runway service failed: ", error>>)),
             raised |-> TRUE]
    ELSE [step |-> FinallyStep(step), raised |-> FALSE]

\* _execute_step from the point where the awaited executor hands back `result`;
\* raised tells whether _execute_step re-raises ServiceException
ReturnStep(step, result) ==
    IF step.stepType = RUNWAY_VIDEO
    THEN IF result.status = "success"
         THEN [step |-> FinallyStep([step EXCEPT !.output = <<result.status, result.video_url>>]),
               raised |-> FALSE]
         ELSE LET error == IF result.status = "failed" THEN result.error ELSE "No result"
              IN [step |-> FinallyStep(ExceptStep(step, <<"Runway service failed: ", error>>)),
                  raised |-> TRUE]
    ELSE [step |-> FinallyStep([step EXCEPT !.output =
                                   <<"success", "Custom processing result...">> \o step.input]),
          raised |-> FALSE]

\* the for loop of _execute_pipeline from iteration i on, run until the task
\* yields inside an executor ("await"), the loop ends ("exhausted", "break")
\* or _execute_step raises ("raised")
RECURSIVE RunLoop(_, _, _)
RunLoop(pipeline, i, inStore) ==
    IF i > Len(pipeline.steps) THEN [pipeline |-> pipeline, at |-> "exhausted", step |-> 0]
    ELSE IF pipeline.status = CANCELLED THEN [pipeline |-> pipeline, at |-> "break", step |-> 0]
    ELSE LET begun == BeginStep(pipeline.steps[i])
         IN IF begun.stepType = RUNWAY_VIDEO /\ ~inStore
            THEN [pipeline |-> [pipeline EXCEPT !.steps[i] =
                                    FinallyStep(ExceptStep(begun, <<"KeyError">>))],
                  at |-> "raised", step |-> i]
            ELSE IF Suspends(begun.stepType)
            THEN [pipeline |-> [pipeline EXCEPT !.steps[i] = begun], at |-> "await", step |-> i]
            ELSE RunLoop([pipeline EXCEPT !.steps[i] = PlaceholderStep(begun)], i + 1, inStore)

\* _execute_pipeline after the loop, completing only a pipeline that has
\* completed a step
AfterLoop_NeedsCompletedStep(pipeline) ==
    IF pipeline.status # FAILED /\ pipeline.completedSteps > 0
    THEN [pipeline EXCEPT !.status = COMPLETED, !.completedAt = TRUE, !.updatedAt = TRUE]
    ELSE [pipeline EXCEPT !.updatedAt = TRUE]

\* _execute_pipeline after the loop
AfterLoop(pipeline) ==
    IF pipeline.status # FAILED
    THEN [pipeline EXCEPT !.status = COMPLETED, !.completedAt = TRUE, !.updatedAt = TRUE]
    ELSE [pipeline EXCEPT !.updatedAt = TRUE]

\* the except block of _execute_pipeline without the assignment of FAILED
ExceptPipeline_KeepsStatus(pipeline) ==
    [pipeline EXCEPT !.updatedAt = TRUE]

\* the except block of _execute_pipeline
ExceptPipeline(pipeline) ==
    [pipeline EXCEPT !.status = FAILED, !.updatedAt = TRUE]

\* the finally block of _execute_pipeline emptying the whole registry
FinallyPipeline_ClearsRegistry(running, pipeline_id) == <<>>

\* the finally block of _execute_pipeline
FinallyPipeline(running, pipeline_id) ==
    IF pipeline_id \in DOMAIN running THEN DictDel(running, pipeline_id) ELSE running

\* the task runs on from the result of RunLoop to its next yield or to its end
Continue(t, run) ==
    LET pipeline_id == tasks[t].pipeline_id
    IN CASE run.at = "await" ->
              /\ objects' = [objects EXCEPT ![pipeline_id] = run.pipeline]
              /\ tasks' = [tasks EXCEPT ![t].pc = "awaiting", ![t].step = run.step]
              /\ last' = Call("task", pipeline_id, "awaiting")
              /\ UNCHANGED running_pipelines
         [] run.at = "raised" ->
              /\ tasks' = [tasks EXCEPT ![t] = Done]
              /\ objects' = Collect([objects EXCEPT ![pipeline_id] = ExceptPipeline(run.pipeline)],
                                    pipelines, tasks')
              /\ running_pipelines' = FinallyPipeline(running_pipelines, pipeline_id)
              /\ last' = Call("task", pipeline_id, "failed")
         [] OTHER ->
              /\ tasks' = [tasks EXCEPT ![t] = Done]
              /\ objects' = Collect([objects EXCEPT ![pipeline_id] = AfterLoop(run.pipeline)],
                                    pipelines, tasks')
              /\ running_pipelines' = FinallyPipeline(running_pipelines, pipeline_id)
              /\ last' = Call("task", pipeline_id, "finished")

\* first run of a task: _execute_pipeline from its entry
TaskBegin(t) ==
    /\ t \in DOMAIN tasks
    /\ tasks[t].pc = "created"
    /\ LET pipeline_id == tasks[t].pipeline_id
       IN IF tasks[t].must_cancel
          THEN \* cancelled before its first run: the coroutine body never executes
               /\ tasks' = [tasks EXCEPT ![t] = Done]
               /\ last' = Call("task", pipeline_id, "cancelled")
               /\ UNCHANGED <<objects, running_pipelines>>
          ELSE IF pipeline_id \notin pipelines
          THEN \* KeyError at the lookup before the try block
               /\ tasks' = [tasks EXCEPT ![t] = Done]
               /\ last' = Call("task", pipeline_id, "failed")
               /\ UNCHANGED <<objects, running_pipelines>>
          ELSE Continue(t, RunLoop(objects[pipeline_id], 1, TRUE))
    /\ UNCHANGED <<pipelines, cancel_snapshot, history, background>>

\* the task is woken up inside the executor call of step tasks[t].step, either
\* by the executor's result or by the CancelledError of a requested cancel
TaskResume(t, result) ==
    /\ t \in DOMAIN tasks
    /\ tasks[t].pc = "awaiting"
    /\ LET pipeline_id == tasks[t].pipeline_id
           i == tasks[t].step
           pipeline == objects[pipeline_id]
       IN IF tasks[t].must_cancel
          THEN \* CancelledError is not an Exception: only the finally blocks run
               /\ tasks' = [tasks EXCEPT ![t] = Done]
               /\ objects' = Collect([objects EXCEPT ![pipeline_id].steps[i] =
                                         FinallyStep(pipeline.steps[i])], pipelines, tasks')
               /\ running_pipelines' = FinallyPipeline(running_pipelines, pipeline_id)
               /\ last' = Call("task", pipeline_id, "cancelled")
               /\ UNCHANGED history
          ELSE LET returned == ReturnStep(pipeline.steps[i], result)
                   after == [pipeline EXCEPT !.steps[i] = returned.step]
               IN /\ history' = Returned(history, pipeline_id, pipeline.steps[i], result)
                  /\ IF returned.raised
                     THEN Continue(t, [pipeline |-> after, at |-> "raised", step |-> i])
                     ELSE IF returned.step.status = FAILED
                     THEN Continue(t, [pipeline |-> [after EXCEPT !.status = FAILED],
                                       at |-> "break", step |-> 0])
                     ELSE IF returned.step.status = COMPLETED
                     THEN Continue(t, RunLoop([after EXCEPT !.completedSteps = @ + 1], i + 1,
                                              pipeline_id \in pipelines))
                     ELSE Continue(t, RunLoop(after, i + 1, pipeline_id \in pipelines))
    /\ UNCHANGED <<pipelines, cancel_snapshot, background>>

\* ---------------------------------------------------------------- specification
Init ==
    /\ objects = <<>>
    /\ pipelines = {}
    /\ running_pipelines = <<>>
    /\ tasks = <<>>
    /\ last = Call("init", 0, "None")
    /\ cancel_snapshot = <<>>
    /\ history = <<>>
    /\ background = {}

Next ==
    \/ \E config \in PipelineConfig : CreatePipeline(DirectVideoId, config)
    \/ \E pipeline_id \in CallerIds : StartPipeline(pipeline_id)
    \/ \E pipeline_id \in CallerIds : CancelPipeline(pipeline_id)
    \/ \E pipeline_id \in CallerIds : DeletePipeline(pipeline_id)
    \/ \E t \in TaskIds : TaskBegin(t)
    \/ \E t \in TaskIds, result \in RunwayResults : TaskResume(t, result)

Spec == Init /\ [][Next]_vars

\* The event loop runs every task that is ready (a new task gets its first
\* run), and every awaited executor call eventually returns or raises.
Fairness ==
    \A t \in TaskIds :
        /\ WF_vars(TaskBegin(t))
        /\ WF_vars(\E result \in RunwayResults : TaskResume(t, result))

\* the same calls and task steps, explored with a smaller budget of pipelines
\* and tasks
FairCreatePipeline(config) ==
    /\ Len(objects) + Len(tasks) < MaxFairSpawned
    /\ CreatePipeline(DirectVideoId, config)

FairStartPipeline(pipeline_id) ==
    /\ pipeline_id \in pipelines => Len(objects) + Len(tasks) < MaxFairSpawned
    /\ StartPipeline(pipeline_id)

FairNext ==
    \/ \E config \in PipelineConfig : FairCreatePipeline(config)
    \/ \E pipeline_id \in CallerIds : FairStartPipeline(pipeline_id)
    \/ \E pipeline_id \in CallerIds : CancelPipeline(pipeline_id)
    \/ \E pipeline_id \in CallerIds : DeletePipeline(pipeline_id)
    \/ \E t \in TaskIds : TaskBegin(t)
    \/ \E t \in TaskIds, result \in RunwayResults : TaskResume(t, result)

FairSpec == Init /\ [][FairNext]_vars /\ Fairness

\* create_pipeline alone: one call on a new manager, with a config drawn from
\* configs that hold longer lists of distinct custom steps. The config of the
\* call about to be made is kept in `last`.
CreatePayloads == CustomPayloads \cup {<<"type", "crop">>}
CreateConfigs ==
    [enableRunwayVideo : BOOLEAN, enableFfmpeg : BOOLEAN, enableWhisper : BOOLEAN,
     enableGpt4 : BOOLEAN, customSteps : SeqsUpTo(CreatePayloads, MaxCreateCustom)]

CreateInit ==
    /\ objects = <<>>
    /\ pipelines = {}
    /\ running_pipelines = <<>>
    /\ tasks = <<>>
    /\ \E config \in CreateConfigs : last = Call("create_request", 0, config)
    /\ cancel_snapshot = <<>>
    /\ history = <<>>
    /\ background = {}

CreateNext == last.op = "create_request" /\ CreatePipeline(DirectVideoId, last.ret)

CreateSpec == CreateInit /\ [][CreateNext]_vars

\* The HTTP API: pipelines are created by transform requests only and started
\* by the background task of their request; cancel and delete requests and the
\* execution tasks run in between.
TransformNext ==
    \/ \E request \in Requests : TransformVideo(request)
    \/ \E pipeline_id \in PipelineIds : BackgroundStart(pipeline_id)
    \/ \E pipeline_id \in CallerIds : CancelPipeline(pipeline_id)
    \/ \E pipeline_id \in CallerIds : DeletePipeline(pipeline_id)
    \/ \E t \in TaskIds : TaskBegin(t)
    \/ \E t \in TaskIds, result \in RunwayResults : TaskResume(t, result)

TransformSpec == Init /\ [][TransformNext]_vars

\* Execution of step lists of every shape. create_pipeline switches the ffmpeg,
\* whisper and gpt4 flags off, so a pipeline it stores never has a step of
\* these types, while _execute_step dispatches on all five types. Here the
\* manager holds one Pending pipeline whose steps are what _create_steps builds
\* for a config as the caller passed it; it is then started, cancelled, deleted
\* and executed as in Spec.
StepInit ==
    /\ \E config \in PipelineConfig :
           objects = <<Pipeline(1, DirectVideoId, _create_steps(config))>>
    /\ pipelines = {1}
    /\ running_pipelines = <<>>
    /\ tasks = <<>>
    /\ last = Call("init", 0, "None")
    /\ cancel_snapshot = <<>>
    /\ history = <<"created">>
    /\ background = {}

StepStartPipeline(pipeline_id) ==
    /\ pipeline_id \in pipelines => Len(objects) + Len(tasks) < MaxStepSpawned
    /\ StartPipeline(pipeline_id)

StepNext ==
    \/ \E pipeline_id \in CallerIds : StepStartPipeline(pipeline_id)
    \/ \E pipeline_id \in CallerIds : CancelPipeline(pipeline_id)
    \/ \E pipeline_id \in CallerIds : DeletePipeline(pipeline_id)
    \/ \E t \in TaskIds : TaskBegin(t)
    \/ \E t \in TaskIds, result \in RunwayResults : TaskResume(t, result)

StepSpec == StepInit /\ [][StepNext]_vars

\* Two pipelines side by side: the manager holds two Pending pipelines, as two
\* create_pipeline calls leave them, and callers and the event loop then start,
\* cancel, delete and execute them in any order, up to MaxObjects objects and
\* tasks in all.
PairConfigs == {config \in PipelineConfig : config.customSteps = <<>>}

PairInit ==
    /\ \E config1, config2 \in PairConfigs :
           objects = <<Pipeline(1, DirectVideoId, _create_steps(ForcedConfig(config1))),
                       Pipeline(2, DirectVideoId, _create_steps(ForcedConfig(config2)))>>
    /\ pipelines = {1, 2}
    /\ running_pipelines = <<>>
    /\ tasks = <<>>
    /\ last = Call("init", 0, "None")
    /\ cancel_snapshot = <<>>
    /\ history = <<"created", "created">>
    /\ background = {}

PairStartPipeline(pipeline_id) ==
    /\ Held(pipeline_id)
    /\ start_pipeline(pipeline_id)
    /\ UNCHANGED background

PairNext ==
    \/ \E pipeline_id \in CallerIds : PairStartPipeline(pipeline_id)
    \/ \E pipeline_id \in CallerIds : CancelPipeline(pipeline_id)
    \/ \E pipeline_id \in CallerIds : DeletePipeline(pipeline_id)
    \/ \E t \in TaskIds : TaskBegin(t)
    \/ \E t \in TaskIds, result \in RunwayResults : TaskResume(t, result)

PairSpec == PairInit /\ [][PairNext]_vars

TypeOK ==
    /\ pipelines \subseteq DOMAIN objects
    /\ \A id \in DOMAIN objects :
          /\ objects[id].status \in PipelineStatus \cup {"garbage"}
          /\ \A i \in DOMAIN objects[id].steps : objects[id].steps[i].status \in StepStatus
    /\ DOMAIN running_pipelines \subseteq PipelineIds
    /\ \A t \in DOMAIN tasks : tasks[t].pc \in {"created", "awaiting", "done"}

\* ---------------------------------------------------------------- claims
IteratingTasks(id) ==
    {t \in DOMAIN tasks : tasks[t].pc = "awaiting" /\ ~tasks[t].must_cancel
                          /\ tasks[t].pipeline_id = id}
ProcessingSteps(p) == {i \in 1..Len(p.steps) : p.steps[i].status = PROCESSING}

\* C1: once a stored pipeline's status is Completed, Failed or Cancelled, no
\* create, start, cancel, delete or task step changes it to another value.
C1_TerminalStatusIsFinal ==
    [][\A id \in pipelines \cap pipelines' :
          objects[id].status \in TerminalPipelineStatus
              => objects'[id].status = objects[id].status]_vars

\* C2: cancel(id) on a pipeline that is Completed or Failed returns true and
\* leaves every field of the pipeline as it was.
C2_CancelOfTerminalIsNoOp ==
    [][\A id \in pipelines :
          (last'.op = "cancel" /\ last'.id = id /\ objects[id].status \in {COMPLETED, FAILED})
              => (last'.ret = "True" /\ objects'[id] = objects[id])]_vars

\* C3: an execution task moves a pipeline to Completed only from Processing;
\* in particular it never overwrites Cancelled with Completed.
C3_TaskCompletesOnlyFromProcessing ==
    [][\A id \in DOMAIN objects :
          (last'.op = "task" /\ objects[id].status # COMPLETED /\ objects'[id].status = COMPLETED)
              => objects[id].status = PROCESSING]_vars

\* C4: start(id) on a stored pipeline that is not Pending fails with a
\* PipelineError and changes neither the pipeline, the tasks nor the registry.
C4_StartOfNonPendingIsRejected ==
    [][\A id \in pipelines :
          (last'.op = "start" /\ last'.id = id /\ objects[id].status # PENDING)
              => /\ last'.ret \in {"PipelineException: not found",
                                   "PipelineException: already started"}
                 /\ objects'[id] = objects[id]
                 /\ UNCHANGED <<tasks, running_pipelines>>]_vars

\* C5: start(id) for an id that is not in the store (never created, or deleted)
\* fails with PipelineError "not found", inserts nothing and registers no task.
C5_StartOfMissingIsNotFound ==
    [][\A id \in CallerIds :
          (last'.op = "start" /\ last'.id = id /\ id \notin pipelines)
              => /\ last'.ret = "PipelineException: not found"
                 /\ UNCHANGED <<objects, pipelines, running_pipelines, tasks>>]_vars

\* C5 witness: start was called for a pipeline that was created and then
\* deleted before any start, and was answered "not found".
C5_Witness ==
    /\ last = Call("start", last.id, "PipelineException: not found")
    /\ last.id \in DOMAIN objects
    /\ last.id \notin pipelines
    /\ tasks = <<>>

\* C6: for every stored pipeline, completedSteps <= totalSteps.
C6_CompletedStepsBounded ==
    \A id \in pipelines : objects[id].completedSteps <= objects[id].totalSteps

\* C7: at most one execution task is iterating the steps of a given pipeline.
C7_OneTaskPerPipeline ==
    \A id \in DOMAIN objects : Cardinality(IteratingTasks(id)) <= 1

\* C8: at most one step of a pipeline is Processing, and a step is set to
\* Processing only when every earlier step is Completed or Skipped.
C8_StepsStrictlySequential ==
    /\ [](\A id \in pipelines : Cardinality(ProcessingSteps(objects[id])) <= 1)
    /\ [][\A id \in pipelines \cap pipelines' : \A i \in DOMAIN objects[id].steps :
             (objects[id].steps[i].status # PROCESSING /\ objects'[id].steps[i].status = PROCESSING)
                 => \A j \in 1..(i - 1) : objects'[id].steps[j].status \in {COMPLETED, SKIPPED}]_vars

\* C9: after cancel(id) on a Processing pipeline, cancel has returned true, the
\* status is and stays Cancelled, and every step that had not begun when cancel
\* was called is and stays Pending.
C9_CancelOfProcessingIsFinal ==
    \A id \in DOMAIN cancel_snapshot :
        /\ objects[id].status = CANCELLED
        /\ \A i \in cancel_snapshot[id] : objects[id].steps[i].status = PENDING
        /\ (last.op = "cancel" /\ last.id = id) => last.ret = "True"

\* C10: a cancel never interrupts an executor call in flight, so a step is
\* Completed only if its executor returned Success (which is what sets output).
C10_CompletedOnlyOnExecutorSuccess ==
    \A id \in pipelines : \A i \in DOMAIN objects[id].steps :
        objects[id].steps[i].status = COMPLETED => objects[id].steps[i].output # None

\* C11: a pipeline that is cancelled right after its start, before the executor
\* call of its first step has returned, is and stays Cancelled with
\* completedSteps = 0.
C11_EarlyCancelIsFinal ==
    \A id \in pipelines :
        history[id] = "cancelled_early"
            => objects[id].status = CANCELLED /\ objects[id].completedSteps = 0

\* C12: once delete(id) has returned true the pipeline is never in the store
\* again (get finds nothing, list does not contain it), and no task starts a
\* step of it or completes an executor call for it.
C12_DeletedPipelineIsGone ==
    [][\A id \in DOMAIN objects :
          id \notin pipelines
              => /\ id \notin pipelines'
                 /\ \A i \in DOMAIN objects[id].steps \cap DOMAIN objects'[id].steps :
                       /\ objects'[id].steps[i].startedAt = objects[id].steps[i].startedAt
                       /\ objects'[id].steps[i].output = objects[id].steps[i].output]_vars

\* C13: when the executor of a step of a stored pipeline resolves to failure,
\* the step becomes Failed with progress 0, the pipeline becomes Failed,
\* completedSteps is not incremented and every later step is still Pending.
C13_StepFailureFailsPipeline ==
    [][\A t \in DOMAIN tasks, result \in RunwayResults :
          (/\ TaskResume(t, result)
           /\ ~tasks[t].must_cancel
           /\ tasks[t].pipeline_id \in pipelines
           /\ objects[tasks[t].pipeline_id].steps[tasks[t].step].stepType = RUNWAY_VIDEO
           /\ result.status # "success")
              => LET id == tasks[t].pipeline_id
                     i == tasks[t].step
                 IN /\ objects'[id].steps[i].status = FAILED
                    /\ objects'[id].steps[i].progress = 0
                    /\ objects'[id].status = FAILED
                    /\ objects'[id].completedSteps = objects[id].completedSteps
                    /\ \A j \in (i + 1)..Len(objects'[id].steps) :
                          objects'[id].steps[j].status = PENDING]_vars

LiveTasks(id) == {t \in DOMAIN tasks : tasks[t].pipeline_id = id}

\* what the executor of `step` hands back on success
ExecutorReturns(step) ==
    IF step.stepType = RUNWAY_VIDEO
    THEN {<<result.status, result.video_url>> : result \in {r \in RunwayResults : r.status = "success"}}
    ELSE {<<"success", "Custom processing result...">> \o step.input}

\* C14: a stored pipeline that was started once, never cancelled, and whose
\* executor calls all returned success ends Completed with completedSteps =
\* totalSteps and completedAt set, every step Completed with progress 100 and
\* the executor's return value as its output.
C14_SuccessfulRunCompletes ==
    \A id \in pipelines :
        (history[id] = "started_once" /\ LiveTasks(id) = {})
            => /\ objects[id].status = COMPLETED
               /\ objects[id].completedSteps = objects[id].totalSteps
               /\ objects[id].completedAt
               /\ \A i \in DOMAIN objects[id].steps :
                     /\ objects[id].steps[i].status = COMPLETED
                     /\ objects[id].steps[i].progress = 100
                     /\ objects[id].steps[i].output \in ExecutorReturns(objects[id].steps[i])

\* C14 witness: a two-step pipeline, started once and never cancelled, whose
\* task has run to its end with both executors succeeding.
C14_Witness ==
    \E id \in pipelines :
        /\ history[id] = "started_once"
        /\ LiveTasks(id) = {}
        /\ Len(objects[id].steps) = 2
        /\ objects[id].status = COMPLETED
        /\ last = Call("task", id, "finished")

\* number of the four enable flags that are true in config
EnabledFlags(config) ==
    (IF config.enableRunwayVideo THEN 1 ELSE 0) + (IF config.enableFfmpeg THEN 1 ELSE 0)
    + (IF config.enableWhisper THEN 1 ELSE 0) + (IF config.enableGpt4 THEN 1 ELSE 0)

\* C15: the pipeline that create builds for config has totalSteps equal to the
\* number of true enable flags of config plus len(config.customSteps).
C15_TotalStepsCountsFlags ==
    [][\A config \in PipelineConfig :
          CreatePipeline(DirectVideoId, config)
              => objects'[Len(objects')].totalSteps
                     = EnabledFlags(config) + Len(config.customSteps)]_vars

\* C16: every stored pipeline has totalSteps = len(steps) and steps[i].order = i
\* (0-based), and no operation changes the length of the step list, a step's
\* type, input or order, or totalSteps.
C16_StepListIsFixed ==
    /\ [](\A id \in pipelines :
             /\ objects[id].totalSteps = Len(objects[id].steps)
             /\ \A i \in DOMAIN objects[id].steps : objects[id].steps[i].order = i - 1)
    /\ [][\A id \in pipelines \cap pipelines' :
             \/ objects'[id] = objects[id]
             \/ /\ objects'[id].totalSteps = objects[id].totalSteps
                /\ Len(objects'[id].steps) = Len(objects[id].steps)
                /\ \A i \in DOMAIN objects[id].steps :
                      /\ objects'[id].steps[i].order = objects[id].steps[i].order
                      /\ objects'[id].steps[i].stepType = objects[id].steps[i].stepType
                      /\ objects'[id].steps[i].input = objects[id].steps[i].input]_vars

\* C16 witness: a stored two-step pipeline whose second step has been executed.
C16_Witness ==
    \E id \in pipelines :
        /\ Len(objects[id].steps) = 2
        /\ objects[id].steps[2].order = 1
        /\ objects[id].steps[2].status = COMPLETED
        /\ objects[id].totalSteps = 2

\* C17: create builds one custom step per entry of config.customSteps, after
\* all flag-derived steps and in the order of the entries, each with the entry
\* as its input.
C17_CustomStepsFollowInOrder ==
    [][(last.op = "create_request" /\ CreatePipeline(DirectVideoId, last.ret))
          => LET config == last.ret
                 steps == objects'[Len(objects')].steps
                 n == Len(config.customSteps)
                 m == Len(steps) - n
             IN /\ m >= 0
                /\ \A j \in 1..m : steps[j].stepType # CUSTOM_PROCESS
                /\ \A k \in 1..n : /\ steps[m + k].stepType = CUSTOM_PROCESS
                                    /\ steps[m + k].input = config.customSteps[k]]_vars

\* C17 witness: create has built a runway step followed by two custom steps
\* with different payloads.
C17_Witness ==
    /\ last.op = "create"
    /\ LET steps == objects[last.id].steps
       IN /\ Len(steps) = 3
          /\ steps[1].stepType = RUNWAY_VIDEO
          /\ steps[2].stepType = CUSTOM_PROCESS /\ steps[2].input = <<"type", "resize">>
          /\ steps[3].stepType = CUSTOM_PROCESS /\ steps[3].input = <<"type", "crop">>

\* C18: create adds one pipeline under an id no pipeline has had before, with
\* status Pending, completedSteps 0 and every step Pending at progress 0; it
\* registers and starts no task, and leaves every other pipeline as it was.
C18_CreateAddsPendingPipeline ==
    [][(last'.op = "create" /\ last' # last)
          => LET id == last'.id
             IN /\ id \notin DOMAIN objects
                /\ pipelines' = pipelines \cup {id}
                /\ objects'[id].pipelineId = id
                /\ objects'[id].status = PENDING
                /\ objects'[id].completedSteps = 0
                /\ \A i \in DOMAIN objects'[id].steps :
                      /\ objects'[id].steps[i].status = PENDING
                      /\ objects'[id].steps[i].progress = 0
                /\ id \notin DOMAIN running_pipelines'
                /\ \A t \in DOMAIN tasks' : tasks'[t].pipeline_id # id
                /\ UNCHANGED <<tasks, running_pipelines>>
                /\ \A other \in DOMAIN objects : objects'[other] = objects[other]]_vars

\* C18 witness: create has just added a pipeline with steps while another
\* pipeline is being executed.
C18_Witness ==
    /\ last.op = "create"
    /\ objects[last.id].steps # <<>>
    /\ \E other \in pipelines \ {last.id} :
          /\ objects[other].status = PROCESSING
          /\ \E t \in DOMAIN tasks : tasks[t].pipeline_id = other /\ tasks[t].pc = "awaiting"

\* C19: for an id that is not in the store, cancel(id) and delete(id) return
\* false and change neither the store, any pipeline nor the task registry.
C19_CancelDeleteOfMissingReturnFalse ==
    [][\A id \in CallerIds :
          (last'.op \in {"cancel", "delete"} /\ last'.id = id /\ id \notin pipelines)
              => /\ last'.ret = "False"
                 /\ UNCHANGED <<objects, pipelines, running_pipelines, tasks>>]_vars

\* C19 witness: delete was called for the id of a pipeline deleted earlier and
\* returned false, while another pipeline is stored and being executed.
C19_Witness ==
    /\ last = Call("delete", last.id, "False")
    /\ last.id \in DOMAIN objects
    /\ last.id \notin pipelines
    /\ \E other \in pipelines : other \in DOMAIN running_pipelines

\* C20: under fair scheduling, a stored pipeline in Processing eventually is
\* Completed, Failed or Cancelled, or has been deleted.
C20_StartedPipelineTerminates ==
    \A id \in PipelineIds :
        (id \in pipelines /\ objects[id].status = PROCESSING)
            ~> (id \notin pipelines \/ objects[id].status \in TerminalPipelineStatus)

\* C20 witness: a task has ended in the except block of _execute_pipeline and
\* left its stored pipeline Failed.
C20_Witness ==
    /\ last.op = "task" /\ last.ret = "failed"
    /\ last.id \in pipelines
    /\ objects[last.id].status = FAILED
    /\ LiveTasks(last.id) = {}

\* C21: whenever an execution task ends (by success, by step failure or by
\* cancellation) the registry holds no handle for its pipeline id, and the
\* registry never holds the handle of a task that has ended.
C21_EndedTaskIsDeregistered ==
    /\ [][\A t \in DOMAIN tasks :
             (tasks[t].pc # "done" /\ tasks'[t].pc = "done")
                 => tasks[t].pipeline_id \notin DOMAIN running_pipelines']_vars
    /\ [](\A id \in DOMAIN running_pipelines : tasks[running_pipelines[id]].pc # "done")

\* the responses by which transform_video rejects a request: HTTP 400 carrying
\* the ValidationException's message, or the 422 of request parsing
ValidationErrors ==
    {"422: request validation", "400: Invalid videoId format",
     "400: Video URL cannot be empty", "400: Video URL must be a valid HTTP/HTTPS URL",
     "400: Prompt cannot be empty", "400: Prompt too long (max 1000 characters)",
     "400: Invalid pipeline config key"}

\* whether a request fails validation: videoId not a UUID, prompt empty or
\* over 1000 characters, URL not http/https, or an unknown pipelineConfig key
FailsValidation(request) ==
    \/ request.videoId \in MalformedVideoIds
    \/ request.prompt = <<>>
    \/ Len(request.prompt) > 1000
    \/ request.videoUrl[1] \notin {"http", "https"}
    \/ \E key \in DOMAIN request.pipelineConfig : key \notin allowed_keys

\* C22: a transform request that fails validation is answered with a
\* validation error, and it changes neither the store, any pipeline, the tasks,
\* the task registry nor the scheduled starts.
C22_InvalidRequestTouchesNothing ==
    [][(last'.op = "transform" /\ FailsValidation(last'.request))
          => /\ last'.ret \in ValidationErrors
             /\ UNCHANGED <<objects, pipelines, running_pipelines, tasks, background>>]_vars

\* C22 witness: a request was rejected for its prompt's length while a pipeline
\* is stored and being executed.
C22_Witness ==
    /\ last.op = "transform"
    /\ last.ret = "400: Prompt too long (max 1000 characters)"
    /\ Len(last.request.prompt) = PromptLimit + 1
    /\ \E id \in pipelines : id \in DOMAIN running_pipelines

\* C23 as claimed: the duplicate check does not exclude a second create for the
\* same video id: while the store holds a pipeline for a video id (and the
\* budget of pipelines is not used up), a further transform request for that
\* video id can still pass the check and insert another pipeline.
C23_SecondCreatePassesCheck ==
    \A id \in pipelines :
        Len(objects) + Len(tasks) < MaxApiSpawned
            => ENABLED (\E request \in WellFormedRequests :
                           /\ request.videoId = objects[id].videoId
                           /\ TransformVideo(request)
                           /\ pipelines' # pipelines)

\* C23: transform_video's duplicate check and create_pipeline run in one
\* segment of the event loop, so however transform, cancel and delete requests
\* and task steps interleave, the store never holds two pipelines created by
\* transform requests with the same videoId.
C23_NoDuplicateVideoId ==
    \A a, b \in pipelines : a # b => objects[a].videoId # objects[b].videoId

\* C23 witness: a second request for a video id arrived while the start of the
\* pipeline made for the first one had not yet run; it was answered with that
\* pipeline, and a pipeline for another video id is stored as well.
C23_Witness ==
    /\ last.op = "transform" /\ last.ret = "Pipeline already exists"
    /\ last.id \in pipelines \cap background
    /\ objects[last.id].videoId = last.request.videoId
    /\ \E other \in pipelines : objects[other].videoId # last.request.videoId

\* C24: after start(id) on a Pending pipeline, and until its task first runs,
\* the status is Processing, the one task of the pipeline is the one registered
\* under id, start has returned None and no step has been executed; when a task
\* later fails on a step, no call of start has returned the failure and get(id)
\* shows the pipeline Failed with the failed step and its error.
C24_StartReturnsBeforeExecution ==
    /\ \A id \in pipelines : \A t \in DOMAIN tasks :
          (history[id] = "started_once" /\ tasks[t].pipeline_id = id /\ tasks[t].pc = "created")
              => /\ objects[id].status = PROCESSING
                 /\ id \in DOMAIN running_pipelines /\ running_pipelines[id] = t
                 /\ LiveTasks(id) = {t}
                 /\ \A i \in DOMAIN objects[id].steps :
                       /\ objects[id].steps[i].status = PENDING
                       /\ ~objects[id].steps[i].startedAt
                 /\ (last.op = "start" /\ last.id = id) => last.ret = "None"
    /\ (last.op = "start" /\ last.id \in pipelines) => last.ret = "None"
    /\ (last.op = "task" /\ last.ret = "failed" /\ last.id \in pipelines)
          => /\ get_pipeline(last.id).status = FAILED
             /\ \E i \in DOMAIN get_pipeline(last.id).steps :
                   /\ get_pipeline(last.id).steps[i].status = FAILED
                   /\ get_pipeline(last.id).steps[i].error # None

\* C24 witness: start has just returned None for a Pending pipeline of two
\* steps; its task is registered and has not run.
C24_Witness ==
    /\ last.op = "start" /\ last.ret = "None"
    /\ last.id \in pipelines
    /\ history[last.id] = "started_once"
    /\ Len(objects[last.id].steps) = 2
    /\ last.id \in DOMAIN running_pipelines
    /\ tasks[running_pipelines[last.id]].pc = "created"

DisabledTypes == {FFMPEG_PROCESS, WHISPER_TRANSCRIBE, GPT4_ANALYSIS}

\* the tasks that an executor call hands back to in this step
ResumedTasks == {t \in DOMAIN tasks : tasks[t].pc = "awaiting" /\ tasks'[t] # tasks[t]}

\* C25: when a task runs a step of a disabled type (ffmpeg, whisper, gpt4) of a
\* stored pipeline, the step ends Skipped with error "<name> service is
\* currently disabled", the task does not fail and does not set the pipeline
\* Failed, completedSteps grows by at most the one step whose executor call
\* returned, and the next step is begun.
C25_DisabledStepIsSkipped ==
    [][\A id \in pipelines : \A i \in DOMAIN objects[id].steps :
          (/\ last'.op = "task"
           /\ objects[id].steps[i].stepType \in DisabledTypes
           /\ objects[id].steps[i].status = PENDING
           /\ objects'[id].steps[i].status # PENDING)
              => /\ objects'[id].steps[i].status = SKIPPED
                 /\ objects'[id].steps[i].error \in
                        {<<"FFmpeg service is currently disabled">>,
                         <<"Whisper service is currently disabled">>,
                         <<"GPT4 service is currently disabled">>}
                 /\ objects'[id].steps[i].error = DisabledMessage(objects[id].steps[i].stepType)
                 /\ last'.ret # "failed"
                 /\ objects'[id].status = FAILED => objects[id].status = FAILED
                 /\ objects'[id].completedSteps - objects[id].completedSteps
                        <= Cardinality(ResumedTasks)
                 /\ i < Len(objects[id].steps) => objects'[id].steps[i + 1].status # PENDING]_vars

\* C25 witness: a task has run a whisper step and a gpt4 step of a stored
\* pipeline in a row and is now inside the executor call of the custom step
\* that follows them.
C25_Witness ==
    \E id \in pipelines : \E i \in DOMAIN objects[id].steps :
        /\ i + 2 \in DOMAIN objects[id].steps
        /\ objects[id].steps[i].stepType = WHISPER_TRANSCRIBE
        /\ objects[id].steps[i].status = SKIPPED
        /\ objects[id].steps[i + 1].stepType = GPT4_ANALYSIS
        /\ objects[id].steps[i + 1].status = SKIPPED
        /\ objects[id].steps[i + 2].status = PROCESSING
        /\ last = Call("task", id, "awaiting")

C27_FailedStepKeepsExecutorError ==
    [][\A t \in DOMAIN tasks, result \in RunwayResults :
          (/\ TaskResume(t, result)
           /\ ~tasks[t].must_cancel
           /\ tasks[t].pipeline_id \in pipelines
           /\ objects[tasks[t].pipeline_id].steps[tasks[t].step].stepType = RUNWAY_VIDEO
           /\ result.status = "failed")
              => LET id == tasks[t].pipeline_id
                     i == tasks[t].step
                 IN /\ objects'[id].steps[i].status = FAILED
                    /\ objects'[id].steps[i].error = <<result.error>>
                    /\ objects'[id].status = FAILED
                    /\ Len(objects'[id].steps) = 1 => objects'[id].completedSteps = 0]_vars

\* str(e) of the exception that the executor invocation of a runway step raises
\* when process_video hands back `result`; None when the invocation returns
RaisedMessage(step, result) ==
    IF step.stepType = RUNWAY_VIDEO /\ result.status # "success"
    THEN <<"Runway service failed: ", IF result.status = "failed" THEN result.error
                                      ELSE "No result">>
    ELSE None

C29_StepStatusChanges ==
    [][\A id \in pipelines \cap pipelines' : \A i \in DOMAIN objects[id].steps :
          objects'[id].steps[i].status # objects[id].steps[i].status
              => <<objects[id].steps[i].status, objects'[id].steps[i].status>>
                     \in {<<PENDING, PROCESSING>>, <<PROCESSING, COMPLETED>>,
                          <<PROCESSING, FAILED>>, <<PROCESSING, SKIPPED>>}]_vars

\* C30: a step of a stored pipeline has its output set only if its status is
\* Completed, and its error set only if its status is Failed or Skipped.
C30_OutputAndErrorMatchStatus ==
    \A id \in pipelines : \A i \in DOMAIN objects[id].steps :
        /\ objects[id].steps[i].output # None => objects[id].steps[i].status = COMPLETED
        /\ objects[id].steps[i].error # None => objects[id].steps[i].status \in {FAILED, SKIPPED}

\* C31: a stored pipeline's completedAt is set only while its status is
\* Completed, Failed or Cancelled (never while Pending or Processing), and
\* every task step that moves the pipeline to Completed leaves completedAt set.
C31_CompletedAtOnlyWhenTerminal ==
    /\ [](\A id \in pipelines :
             objects[id].completedAt => objects[id].status \in TerminalPipelineStatus)
    /\ [][\A id \in pipelines \cap pipelines' :
             (last'.op = "task" /\ objects[id].status # COMPLETED
              /\ objects'[id].status = COMPLETED) => objects'[id].completedAt]_vars

\* C32: no start, cancel, delete of another pipeline or task step (step
\* success, step failure, cancellation, end of the task) lowers or resets the
\* completedSteps of a stored pipeline.
C32_CompletedStepsNeverDecreases ==
    [][\A id \in pipelines \cap pipelines' :
          objects'[id].completedSteps >= objects[id].completedSteps]_vars

\* C32 witness: a pipeline with a completed step has just been started again;
\* its count of completed steps is still there.
C32_Witness ==
    /\ last.op = "start" /\ last.ret = "None"
    /\ last.id \in pipelines
    /\ objects[last.id].completedSteps >= 1
    /\ objects[last.id].status = PROCESSING

\* C33: a start, cancel, delete or task step of pipeline a leaves every other
\* stored pipeline b as it was: b stays stored with every field and every step
\* unchanged, b's entry in the task registry is unchanged, and no task of b is
\* created, cancelled, resumed or ended.
C33_PipelinesAreIndependent ==
    [][\A b \in pipelines :
          (last'.op \in {"start", "cancel", "delete", "task"} /\ last'.id # b)
              => /\ b \in pipelines'
                 /\ objects'[b] = objects[b]
                 /\ b \in DOMAIN running_pipelines' <=> b \in DOMAIN running_pipelines
                 /\ b \in DOMAIN running_pipelines
                        => running_pipelines'[b] = running_pipelines[b]
                 /\ \A t \in DOMAIN tasks' :
                        (tasks'[t].pipeline_id = b \/ (t \in DOMAIN tasks /\ tasks[t].pipeline_id = b))
                            => (t \in DOMAIN tasks /\ tasks'[t] = tasks[t])]_vars

\* C33 witness: the task of one pipeline has just run to its end and completed
\* it while the task of another stored pipeline is suspended in the executor
\* call of its step.
C33_Witness ==
    /\ last = Call("task", last.id, "finished")
    /\ last.id \in pipelines
    /\ objects[last.id].status = COMPLETED
    /\ objects[last.id].completedSteps = 1
    /\ \E b \in pipelines \ {last.id} :
          /\ objects[b].status = PROCESSING
          /\ b \in DOMAIN running_pipelines
          /\ tasks[running_pipelines[b]].pc = "awaiting"
          /\ objects[b].steps[1].status = PROCESSING

\* C34: a pipeline that transform_video has created and that is cancelled
\* before the start handed to the background task has run stays Cancelled: the
\* start that runs later does not move it to Processing, begins none of its
\* steps and leaves it without an execution task, so no step of it is ever run.
C34_CancelBeforeBackgroundStartIsFinal ==
    [][\A id \in pipelines \cap background :
          (objects[id].status = CANCELLED /\ id \in pipelines')
              => /\ objects'[id].status = CANCELLED
                 /\ \A i \in DOMAIN objects'[id].steps : objects'[id].steps[i].status = PENDING
                 /\ \A t \in DOMAIN tasks' : tasks'[t].pipeline_id # id
                 /\ id \notin DOMAIN running_pipelines']_vars

CompletedStepsOf(p) == {i \in 1..Len(p.steps) : p.steps[i].status = COMPLETED}

\* C35: for every stored pipeline, completedSteps equals the number of its
\* steps whose status is Completed, in every state between two segments of the
\* event loop, also after a cancel that arrives while a step is in flight.
C35_CompletedStepsCountsCompleted ==
    \A id \in pipelines :
        objects[id].completedSteps = Cardinality(CompletedStepsOf(objects[id]))

\* C36: a stored pipeline without steps that has been started once and not
\* cancelled since: its task never enters an executor call; when the task has
\* ended the pipeline is Completed with completedSteps = 0 and completedAt
\* set; and under fair scheduling the task does end, so the pipeline becomes
\* Completed unless it is cancelled, deleted or started again first.
C36_EmptyPipelineCompletes ==
    /\ [](\A id \in pipelines :
             (history[id] = "started_once" /\ objects[id].totalSteps = 0)
                 => /\ \A t \in LiveTasks(id) : tasks[t].pc = "created"
                    /\ LiveTasks(id) = {}
                           => /\ objects[id].status = COMPLETED
                              /\ objects[id].completedSteps = 0
                              /\ objects[id].completedAt)
    /\ \A id \in PipelineIds :
          (id \in pipelines /\ history[id] = "started_once" /\ objects[id].totalSteps = 0)
              ~> \/ id \notin pipelines
                 \/ history[id] # "started_once"
                 \/ objects[id].status = COMPLETED /\ objects[id].completedAt

\* C36 witness: the task of a pipeline created with enableRunwayVideo false and
\* no custom steps, started once and never cancelled, has just ended and left
\* the pipeline Completed.
C36_Witness ==
    /\ last = Call("task", last.id, "finished")
    /\ last.id \in pipelines
    /\ history[last.id] = "started_once"
    /\ objects[last.id].steps = <<>> /\ objects[last.id].totalSteps = 0
    /\ objects[last.id].status = COMPLETED
    /\ objects[last.id].completedSteps = 0
    /\ LiveTasks(last.id) = {}

\* C37: every id with a handle in the task registry is a key of the store and
\* its pipeline is Processing; and a step that moves a stored pipeline out of
\* Processing or removes it from the store leaves no handle under its id.
C37_RegisteredMeansProcessing ==
    /\ [](\A id \in DOMAIN running_pipelines :
             id \in pipelines /\ objects[id].status = PROCESSING)
    /\ [][\A id \in pipelines :
             (objects[id].status = PROCESSING
              /\ (id \notin pipelines' \/ objects'[id].status # PROCESSING))
                 => id \notin DOMAIN running_pipelines']_vars
\* C37 witness: a pipeline was started twice; the task of the first start has
\* just run to its end, completed the pipeline and removed the registry entry,
\* which held the task of the second start; that task has not ended.
C37_Witness ==
    /\ last = Call("task", last.id, "finished")
    /\ last.id \in pipelines
    /\ objects[last.id].status = COMPLETED
    /\ last.id \notin DOMAIN running_pipelines
    /\ \E t \in LiveTasks(last.id) : ~tasks[t].must_cancel
    /\ \E other \in pipelines : other # last.id

====
